---- MODULE Spec2Model ----
(***************************************************************************)
(* Model of BasiliskII/src/iOS/BasiliskII/ether_ios.cpp: the Ethernet      *)
(* driver glue of the emulator (build without SHEEPSHAVER, with            *)
(* HAVE_SLIRP, HAVE_PTHREAD_CANCEL and USE_POLL).                          *)
(*                                                                         *)
(* Actors: the caller of ether_init / ether_exit / ether_*_udp_thread      *)
(* (mpc), the packet reception threads (rthreads), the slirp threads       *)
(* (sthreads), the emulated CPU that services the Ethernet interrupt and   *)
(* issues attach/detach/reset and transmits (gpc), and the host network   *)
(* that makes frames readable on the backend descriptor.                   *)
(*                                                                         *)
(* Specifications: SpecLife (one device from start to shutdown), SpecTable *)
(* and SpecDispatch (the protocol table), SpecTx (ether_do_write and the   *)
(* slirp input pipe), SpecShared (the table used from two threads),        *)
(* SpecAnyOrder (the entry points called in any order), FairLife           *)
(* (SpecLife with scheduling), FairRx (reception with a guest that         *)
(* services every interrupt, no shutdown).                                 *)
(***************************************************************************)
EXTENDS Integers, Sequences, FiniteSets, TLC

\* ---------------------------------------------------------------- bounds
MaxQueue == 2       \* frames readable on the backend at one time
MaxFd == 8          \* highest descriptor number the process can hold
MaxThreads == 2     \* thread slots of each kind
MaxCount == 2       \* saturation of the history counters

\* ------------------------------------------------------ program constants
NET_IF_SHEEPNET == 0
NET_IF_SLIRP == 3
noErr == 0
lapProtErr == -94
MinFrame == 14      \* length < 14 ends the read loop
ReadMax == 1514     \* read(fd, ..., 1514)
LenFieldMax == 1500 \* type <= 1500 is a length field
excessCollsns == -95
PacketBuf == 1516   \* uint8 packet[1516]

\* ------------------------------------------------------------ input sets
\* A frame is its length and the two bytes at offsets 12 and 13.
Frames ==
    { [len |-> 10, hi |-> 0, lo |-> 0],
      [len |-> 14, hi |-> 5, lo |-> 220],
      [len |-> 60, hi |-> 5, lo |-> 221] }
LongFrames == { f \in Frames : f.len >= MinFrame }
ProtoTypes == {0, 1500, 1501}
Handlers == {0, 1}
Names == {"null", "slirp", "sheep_net"}
FailPoints == {"none", "slirp_init", "pipe1", "pipe2", "open", "nonblock",
               "sem", "thread", "slirp_thread"}
Tids == 1..MaxThreads
NoDisp == [kind |-> "none", key |-> 0, handler |-> 0, called |-> FALSE]
\* Byte counts a guest write data structure describes.
TxSizes == {60, 1516, 1600}
NoTx == [asked |-> 0, wrote |-> FALSE, ret |-> noErr]

VARIABLES
    net_protocols,        \* map<uint16, uint32>: the set of its <<type, handler>> nodes
    fd,                   \* fd of the backend, -1 when none
    slirp_output_fd,      \* write end of the slirp output pipe
    slirp_input_fds,      \* <<read end, write end>> of the slirp input pipe
    net_if_type,          \* -1, NET_IF_SHEEPNET or NET_IF_SLIRP
    udp_tunnel,           \* fd is the UDP socket
    thread_active,        \* flag: reception thread installed
    slirp_thread_active,  \* flag: slirp thread installed
    ether_thread,         \* handle of the last reception thread created, 0 = none
    slirp_thread,         \* handle of the last slirp thread created, 0 = none
    int_ack,              \* [st: "null" | "live" | "released", cnt]
    rthreads,             \* reception threads: tid -> [pc, cancel]
    sthreads,             \* slirp threads: tid -> [pc, cancel]
    fdOpen,               \* descriptors open in the process
    backend,              \* frames readable on the backend, oldest first
    intFlag,              \* INTFLAG_ETHER is set
    gpc,                  \* emulated CPU: "run" | "read" | "index" | "ack"
    mpc,                  \* caller: "idle" or its place inside stop_thread
    caller,               \* which function is inside stop_thread
    life,                 \* which lifecycle calls have been made
    \* history of the run, read by the properties only
    pending,              \* interrupts raised and not yet acknowledged
    disp,                 \* the last frame handed on by ether_do_interrupt
    nDisp,                \* frames handed on during the current interrupt
    lastRead,             \* what the last read of ether_do_interrupt returned
    lastCall,             \* the last attach / detach / reset and its result code
    initRet,              \* what ether_init returned: "none" | "true" | "false"
    initFds,              \* descriptors the ether_init call acquired
    badClose,             \* close() was called on a descriptor not open
    badSignal,            \* int_ack was signalled while NULL or released
    redirs,               \* times slirp_add_redirs ran
    inpipe,               \* slirp input pipe: packets written and not yet read
    lastTx,               \* the last ether_do_write: bytes asked, write outcome, result
    asserted,             \* the assert() of slirp_receive_func has failed
    lookup                \* key of the ether_dispatch_packet between its find()
                          \* and its operator[], -1 outside

vars == << net_protocols, fd, slirp_output_fd, slirp_input_fds, net_if_type,
           udp_tunnel, thread_active, slirp_thread_active, ether_thread,
           slirp_thread, int_ack, rthreads, sthreads, fdOpen, backend, intFlag,
           gpc, mpc, caller, life, pending, disp, nDisp, lastRead,
           lastCall, initRet, initFds, badClose, badSignal, redirs,
           inpipe, lastTx, asserted, lookup >>

tableVars == << net_protocols, lastCall >>
devVars == << fd, slirp_output_fd, slirp_input_fds, net_if_type, udp_tunnel,
              fdOpen, initRet, initFds, badClose, redirs >>
threadVars == << thread_active, slirp_thread_active, ether_thread, slirp_thread,
                 rthreads, sthreads >>
rxVars == << backend, intFlag, gpc, pending, disp, nDisp, lastRead, badSignal >>
mainVars == << mpc, caller, life >>
txVars == << inpipe, lastTx, asserted >>

\* ------------------------------------------------------------- helpers
Min(a, b) == IF a < b THEN a ELSE b
Bump(n) == Min(n + 1, MaxCount)

\* The lowest descriptor above the standard streams that is not in `open`,
\* -1 when the table is full (EMFILE).
AllocFd(open) ==
    LET free == { n \in 3..MaxFd : n \notin open }
    IN  IF free = {} THEN -1
        ELSE CHOOSE n \in free : \A m \in free : n <= m

\* The lowest free thread slot, 0 when none.
FreeTid(threads) ==
    LET free == { t \in Tids : threads[t].pc = "free" }
    IN  IF free = {} THEN 0
        ELSE CHOOSE t \in free : \A u \in free : t <= u

Terminated(th) == th.pc \in {"exited", "cancelled"}

\* ------------------------------------------- std::map<uint16, uint32>
\* The map is the set of its <<key, value>> nodes.
MapKeys(tab) == { p[1] : p \in tab }
MapHas(tab, k) == \E p \in tab : p[1] = k
MapGet(tab, k) == (CHOOSE p \in tab : p[1] = k)[2]
\* operator[] followed by assignment: the node of k is found or created.
MapAssign(tab, k, v) == { p \in tab : p[1] # k } \cup { <<k, v>> }
MapErase(tab, k) == { p \in tab : p[1] # k }
MapEraseCount(tab, k) == Cardinality({ p \in tab : p[1] = k })

\* ether_attach_ph without the find(): the handler is stored whatever is there.
ether_attach_ph_Overwrite(tab, type, handler) ==
    [tab |-> MapAssign(tab, type, handler), ret |-> noErr]

\* ether_attach_ph: the table and the result code after the call.
ether_attach_ph(tab, type, handler) ==
    IF MapHas(tab, type)
    THEN [tab |-> tab, ret |-> lapProtErr]
    ELSE [tab |-> MapAssign(tab, type, handler), ret |-> noErr]

\* ether_detach_ph ignoring what erase() returned.
ether_detach_ph_Silent(tab, type) ==
    [tab |-> MapErase(tab, type), ret |-> noErr]

\* ether_detach_ph
ether_detach_ph(tab, type) ==
    IF MapEraseCount(tab, type) = 0
    THEN [tab |-> tab, ret |-> lapProtErr]
    ELSE [tab |-> MapErase(tab, type), ret |-> noErr]

\* A reset that spares the entry of type 0.
ether_reset_KeepDefault(tab) == { p \in tab : p[1] = 0 }

\* ether_reset
ether_reset(tab) == {}

\* ReadMacInt16(p + 12): the big-endian 16-bit field at offset 12.
ReadMacInt16(f) == f.hi * 256 + f.lo

\* The comparison with < in place of <=.
SearchType_OffByOne(type) == IF type < LenFieldMax THEN 0 ELSE type

\* uint16 search_type = (type <= 1500 ? 0 : type)
SearchType(type) == IF type <= LenFieldMax THEN 0 ELSE type

\* ether_dispatch_packet without the test for a zero handler.
ether_dispatch_packet_NoNullCheck(tab, f) ==
    LET search_type == SearchType(ReadMacInt16(f))
        found == MapHas(tab, search_type)
    IN  [kind |-> "dispatch", key |-> search_type,
         handler |-> IF found THEN MapGet(tab, search_type) ELSE 0,
         called |-> found]

\* ether_dispatch_packet: what the call did with frame f.
ether_dispatch_packet(tab, f) ==
    LET type == ReadMacInt16(f)
        search_type == SearchType(type)
        found == MapHas(tab, search_type)
        handler == IF found THEN MapGet(tab, search_type) ELSE 0
    IN  [kind |-> "dispatch", key |-> search_type, handler |-> handler,
         called |-> found /\ handler # 0]

\* ------------------------------------------------------------------ Init
Init ==
    /\ net_protocols = {}
    /\ fd = -1
    /\ slirp_output_fd = -1
    /\ slirp_input_fds = << -1, -1 >>
    /\ net_if_type = -1
    /\ udp_tunnel = FALSE
    /\ thread_active = FALSE
    /\ slirp_thread_active = FALSE
    /\ ether_thread = 0
    /\ slirp_thread = 0
    /\ int_ack = [st |-> "null", cnt |-> 0]
    /\ rthreads = [t \in Tids |-> [pc |-> "free", cancel |-> FALSE]]
    /\ sthreads = [t \in Tids |-> [pc |-> "free", cancel |-> FALSE]]
    /\ fdOpen = {}
    /\ backend = << >>
    /\ intFlag = FALSE
    /\ gpc = "run"
    /\ mpc = "idle"
    /\ caller = "none"
    /\ life = "closed"
    /\ pending = 0
    /\ disp = NoDisp
    /\ nDisp = 0
    /\ lastRead = -1
    /\ lastCall = [op |-> "none", ret |-> noErr]
    /\ initRet = "none"
    /\ initFds = {}
    /\ badClose = FALSE
    /\ badSignal = FALSE
    /\ redirs = 0
    /\ inpipe = << >>
    /\ lastTx = NoTx
    /\ asserted = FALSE
    /\ lookup = -1

\* ------------------------------------------- guest driver requests
GuestAttach(t, h) ==
    /\ gpc = "run"
    /\ LET r == ether_attach_ph(net_protocols, t, h)
       IN  /\ net_protocols' = r.tab
           /\ lastCall' = [op |-> "attach", ret |-> r.ret]
    /\ UNCHANGED << txVars, lookup, devVars, threadVars, rxVars, mainVars, int_ack >>

GuestDetach(t) ==
    /\ gpc = "run"
    /\ LET r == ether_detach_ph(net_protocols, t)
       IN  /\ net_protocols' = r.tab
           /\ lastCall' = [op |-> "detach", ret |-> r.ret]
    /\ UNCHANGED << txVars, lookup, devVars, threadVars, rxVars, mainVars, int_ack >>

GuestReset ==
    /\ gpc = "run"
    /\ net_protocols' = ether_reset(net_protocols)
    /\ lastCall' = [op |-> "reset", ret |-> noErr]
    /\ UNCHANGED << txVars, lookup, devVars, threadVars, rxVars, mainVars, int_ack >>

\* ------------------------------------------------ the backend descriptor
\* poll(&pf, 1, -1) on fd returns 1: data is readable, or the number is not an
\* open descriptor (POLLNVAL).  A negative fd is ignored by poll.
PollReady ==
    /\ fd >= 0
    /\ \/ fd \notin fdOpen
       \/ backend # << >>

RECURSIVE SumLen(_)
SumLen(q) == IF q = << >> THEN 0 ELSE Head(q).len + SumLen(Tail(q))

\* read() on the slirp output pipe: a pipe is a byte stream, so one read returns
\* the bytes of every frame written so far, up to the 1514 asked for.  The two
\* bytes at offsets 12 and 13 are those of the oldest frame.
PipeRead(q) ==
    LET total == SumLen(q)
    IN  IF total <= ReadMax
        THEN [len |-> total, frame |-> [len |-> total, hi |-> Head(q).hi,
                                        lo |-> Head(q).lo],
              rest |-> << >>]
        ELSE [len |-> ReadMax, frame |-> [len |-> ReadMax, hi |-> Head(q).hi,
                                          lo |-> Head(q).lo],
              rest |-> << [len |-> total - ReadMax, hi |-> 0, lo |-> 0] >>]

\* read() / recvfrom() on a packet device or datagram socket: one frame per
\* call, cut to the 1514 bytes asked for.
PacketRead(q) ==
    LET f == Head(q)
    IN  [len |-> Min(f.len, ReadMax),
         frame |-> [f EXCEPT !.len = Min(f.len, ReadMax)],
         rest |-> Tail(q)]

\* The read in ether_do_interrupt: -1 when fd is no open descriptor or nothing
\* is readable on the non-blocking descriptor.
BackendRead ==
    IF fd \notin fdOpen \/ backend = << >>
    THEN [len |-> -1, frame |-> [len |-> 0, hi |-> 0, lo |-> 0], rest |-> backend]
    ELSE IF net_if_type = NET_IF_SLIRP /\ ~udp_tunnel
         THEN PipeRead(backend)
         ELSE PacketRead(backend)

\* The host network delivers a frame to the raw device or the UDP socket.
FrameArrives(f) ==
    /\ fd \in fdOpen
    /\ udp_tunnel \/ net_if_type # NET_IF_SLIRP
    /\ Len(backend) < MaxQueue
    /\ backend' = Append(backend, f)
    /\ UNCHANGED << txVars, lookup, tableVars, devVars, threadVars, mainVars, int_ack, intFlag,
                    gpc, pending, disp, nDisp, lastRead, badSignal >>

\* --------------------------------------------------- receive_func
\* poll() returned > 0: SetInterruptFlag, TriggerInterrupt, then the thread
\* is inside dispatch_semaphore_wait.
RaiseInterrupt(t) ==
    /\ intFlag' = TRUE
    /\ pending' = Bump(pending)
    /\ rthreads' = [rthreads EXCEPT ![t].pc = "wait"]

RecvPollReady(t) ==
    /\ rthreads[t].pc = "poll"
    /\ ~rthreads[t].cancel
    /\ PollReady
    /\ RaiseInterrupt(t)
    /\ UNCHANGED << txVars, lookup, tableVars, devVars, mainVars, int_ack, thread_active,
                    slirp_thread_active, ether_thread, slirp_thread, sthreads,
                    backend, gpc, disp, nDisp, lastRead, badSignal >>

\* poll() returned <= 0 (interrupted by a signal): break, the thread returns.
RecvPollFail(t) ==
    /\ rthreads[t].pc = "poll"
    /\ ~rthreads[t].cancel
    /\ rthreads' = [rthreads EXCEPT ![t].pc = "exited"]
    /\ UNCHANGED << txVars, lookup, tableVars, devVars, mainVars, rxVars, int_ack, thread_active,
                    slirp_thread_active, ether_thread, slirp_thread, sthreads >>

\* A thread that can be cancelled inside the wait for the acknowledgment too.
RecvCancelPoint_AlsoWait(pc) == pc \in {"poll", "wait"}

\* A thread with no cancellation point in its loop.
RecvCancelPoint_None(pc) == FALSE

\* The cancellation points of the thread (cancellation is deferred, the
\* default).  poll() is one; dispatch_semaphore_wait() is not: it is no POSIX
\* call and waits on a Mach semaphore.
RecvCancelPoint(pc) == pc = "poll"

RecvCancelled(t) ==
    /\ RecvCancelPoint(rthreads[t].pc)
    /\ rthreads[t].cancel
    /\ rthreads' = [rthreads EXCEPT ![t].pc = "cancelled"]
    /\ UNCHANGED << txVars, lookup, tableVars, devVars, mainVars, rxVars, int_ack, thread_active,
                    slirp_thread_active, ether_thread, slirp_thread, sthreads >>

\* A wait that returns without taking the signal.
AckTaken_NoConsume(sem) == sem

\* dispatch_semaphore_wait(int_ack, DISPATCH_TIME_FOREVER) returns.
AckTaken(sem) == [sem EXCEPT !.cnt = sem.cnt - 1]

RecvAcked(t) ==
    /\ rthreads[t].pc = "wait"
    /\ int_ack.st = "live"
    /\ int_ack.cnt > 0
    /\ int_ack' = AckTaken(int_ack)
    /\ rthreads' = [rthreads EXCEPT ![t].pc = "poll"]
    /\ UNCHANGED << txVars, lookup, tableVars, devVars, mainVars, rxVars, thread_active,
                    slirp_thread_active, ether_thread, slirp_thread, sthreads >>

\* --------------------------------------------------- slirp_receive_func
\* slirp_output, called by the stack on the slirp thread: write() of one frame
\* to the output pipe.
SlirpOutput(t, f) ==
    /\ sthreads[t].pc = "run"
    /\ Len(backend) < MaxQueue
    /\ backend' = IF slirp_output_fd \in fdOpen THEN Append(backend, f) ELSE backend
    /\ UNCHANGED << txVars, lookup, tableVars, devVars, threadVars, mainVars, int_ack, intFlag,
                    gpc, pending, disp, nDisp, lastRead, badSignal >>

\* select() and pthread_testcancel() in the loop are cancellation points.
SlirpCancelled(t) ==
    /\ sthreads[t].pc = "run"
    /\ sthreads[t].cancel
    /\ sthreads' = [sthreads EXCEPT ![t].pc = "cancelled"]
    /\ UNCHANGED << txVars, lookup, tableVars, devVars, mainVars, rxVars, int_ack, thread_active,
                    slirp_thread_active, ether_thread, slirp_thread, rthreads >>

\* ------------------------------------ EtherInterrupt / ether_do_interrupt
\* The emulated CPU sees INTFLAG_ETHER, clears it and enters EtherInterrupt.
GuestTakeInterrupt ==
    /\ gpc = "run"
    /\ intFlag
    /\ intFlag' = FALSE
    /\ gpc' = "read"
    /\ nDisp' = 0
    /\ UNCHANGED << txVars, lookup, tableVars, devVars, threadVars, mainVars, int_ack, backend,
                    pending, disp, lastRead, badSignal >>

\* The pass with only the failed read (length < 0) ending the loop.
ReadPass_NoMinimum(r) ==
    IF r.len < 0
    THEN [again |-> FALSE, disp |-> disp, handed |-> FALSE]
    ELSE IF udp_tunnel
         THEN [again |-> TRUE, disp |-> [NoDisp EXCEPT !.kind = "udp"],
               handed |-> TRUE]
         ELSE [again |-> TRUE,
               disp |-> ether_dispatch_packet(net_protocols, r.frame),
               handed |-> TRUE]

\* The pass leaving the loop after the first frame it hands on.
ReadPass_OneFrame(r) ==
    IF r.len < MinFrame
    THEN [again |-> FALSE, disp |-> disp, handed |-> FALSE]
    ELSE IF udp_tunnel
         THEN [again |-> FALSE, disp |-> [NoDisp EXCEPT !.kind = "udp"],
               handed |-> TRUE]
         ELSE [again |-> FALSE,
               disp |-> ether_dispatch_packet(net_protocols, r.frame),
               handed |-> TRUE]

\* What one pass of the for(;;) of ether_do_interrupt does with what it read.
ReadPass(r) ==
    IF r.len < MinFrame
    THEN [again |-> FALSE, disp |-> disp, handed |-> FALSE]
    ELSE IF udp_tunnel
         THEN [again |-> TRUE,
               disp |-> [NoDisp EXCEPT !.kind = "udp"],
               handed |-> TRUE]
         ELSE [again |-> TRUE,
               disp |-> ether_dispatch_packet(net_protocols, r.frame),
               handed |-> TRUE]

GuestRead ==
    /\ gpc = "read"
    /\ LET r == BackendRead
           o == ReadPass(r)
       IN  /\ backend' = r.rest
           /\ lastRead' = r.len
           /\ disp' = o.disp
           /\ nDisp' = IF o.handed THEN Bump(nDisp) ELSE nDisp
           /\ gpc' = IF o.again THEN "read" ELSE "ack"
    /\ UNCHANGED << txVars, lookup, tableVars, devVars, threadVars, mainVars, int_ack, intFlag,
                    pending, badSignal >>

\* dispatch_semaphore_signal(int_ack)
AckSignalled(sem) == [sem EXCEPT !.cnt = Bump(sem.cnt)]

GuestAck ==
    /\ gpc = "ack"
    /\ gpc' = "run"
    /\ pending' = IF pending > 0 THEN pending - 1 ELSE 0
    /\ lastRead' = -1
    /\ IF int_ack.st = "live"
       THEN int_ack' = AckSignalled(int_ack) /\ badSignal' = badSignal
       ELSE int_ack' = int_ack /\ badSignal' = TRUE
    /\ UNCHANGED << txVars, lookup, tableVars, devVars, threadVars, mainVars, backend, intFlag,
                    disp, nDisp >>

\* ------------------------------------------------------- start_thread
\* The state after start_thread: the semaphore, the flags, the threads.
\* `fail` names the call that fails ("sem", "thread", "slirp_thread").
start_thread(fail, nit) ==
    LET rt == FreeTid(rthreads)
        st == FreeTid(sthreads)
        semOk == fail # "sem"
        rOk == semOk /\ fail # "thread" /\ rt # 0
        wantS == nit = NET_IF_SLIRP
        sOk == rOk /\ wantS /\ fail # "slirp_thread" /\ st # 0
    IN  [ok |-> rOk /\ (wantS => sOk),
         int_ack |-> IF semOk THEN [st |-> "live", cnt |-> 0]
                     ELSE [st |-> "null", cnt |-> 0],
         thread_active |-> IF semOk THEN rOk ELSE thread_active,
         ether_thread |-> IF rOk THEN rt ELSE ether_thread,
         rthreads |-> IF rOk
                      THEN [rthreads EXCEPT ![rt] = [pc |-> "poll", cancel |-> FALSE]]
                      ELSE rthreads,
         slirp_thread_active |-> IF rOk /\ wantS THEN sOk ELSE slirp_thread_active,
         slirp_thread |-> IF sOk THEN st ELSE slirp_thread,
         sthreads |-> IF sOk
                      THEN [sthreads EXCEPT ![st] = [pc |-> "run", cancel |-> FALSE]]
                      ELSE sthreads]

\* --------------------------------------------------------- ether_init
\* An ether_init that leaves the redirections out.
slirp_add_redirs_Skipped(n) == n

\* slirp_add_redirs(): every "redir" preference goes to slirp_add_redir once;
\* n counts the runs.
slirp_add_redirs(n) == Bump(n)

\* The part of ether_init before start_thread: where it leaves the function
\* ("false": return false, "open_error": goto open_error, "start": reaches
\* start_thread) and the descriptors it holds there.
InitOpen(name, fail) ==
    LET a1 == AllocFd(fdOpen)
        a2 == AllocFd(fdOpen \cup {a1})
        b1 == AllocFd(fdOpen \cup {a1, a2})
        b2 == AllocFd(fdOpen \cup {a1, a2, b1})
        same == [at |-> "false", fd |-> fd, out |-> slirp_output_fd,
                 inp |-> slirp_input_fds, open |-> fdOpen, got |-> {},
                 redirs |-> redirs]
    IN  IF name = "slirp"
        THEN IF fail = "slirp_init" THEN same
             ELSE IF fail = "pipe1" \/ a1 = -1 \/ a2 = -1 THEN same
             ELSE IF fail = "pipe2" \/ b1 = -1 \/ b2 = -1
                  THEN [same EXCEPT !.fd = a1, !.out = a2,
                                    !.open = fdOpen \cup {a1, a2}, !.got = {a1, a2}]
             ELSE [at |-> IF fail = "nonblock" THEN "open_error" ELSE "start",
                   fd |-> a1, out |-> a2, inp |-> <<b1, b2>>,
                   open |-> fdOpen \cup {a1, a2, b1, b2}, got |-> {a1, a2, b1, b2},
                   redirs |-> slirp_add_redirs(redirs)]
        ELSE IF fail = "open" \/ a1 = -1
             THEN [same EXCEPT !.at = "open_error", !.fd = -1]
             ELSE [same EXCEPT !.at = IF fail = "nonblock" THEN "open_error"
                                      ELSE "start",
                               !.fd = a1, !.open = fdOpen \cup {a1}, !.got = {a1}]

\* ether_init(), from its entry to its return or to the stop_thread of open_error.
ether_init(name, fail) ==
    /\ mpc = "idle"
    /\ IF name = "null"
       THEN /\ initRet' = "false"
            /\ life' = "failed"
            /\ UNCHANGED << fd, slirp_output_fd, slirp_input_fds, net_if_type,
                            fdOpen, initFds, redirs, threadVars, int_ack, mpc,
                            caller >>
       ELSE LET nit == IF name = "slirp" THEN NET_IF_SLIRP ELSE NET_IF_SHEEPNET
                o == InitOpen(name, fail)
                s == start_thread(fail, nit)
                started == o.at = "start"
                ok == started /\ s.ok
            IN  /\ net_if_type' = nit
                /\ fd' = o.fd
                /\ slirp_output_fd' = o.out
                /\ slirp_input_fds' = o.inp
                /\ fdOpen' = o.open
                /\ initFds' = o.got
                /\ redirs' = o.redirs
                /\ int_ack' = IF started THEN s.int_ack ELSE int_ack
                /\ thread_active' = IF started THEN s.thread_active ELSE thread_active
                /\ ether_thread' = IF started THEN s.ether_thread ELSE ether_thread
                /\ rthreads' = IF started THEN s.rthreads ELSE rthreads
                /\ slirp_thread_active' = IF started THEN s.slirp_thread_active
                                          ELSE slirp_thread_active
                /\ slirp_thread' = IF started THEN s.slirp_thread ELSE slirp_thread
                /\ sthreads' = IF started THEN s.sthreads ELSE sthreads
                /\ IF ok
                   THEN initRet' = "true" /\ life' = "open" /\ UNCHANGED << mpc, caller >>
                   ELSE IF o.at = "false"
                        THEN initRet' = "false" /\ life' = "failed"
                             /\ UNCHANGED << mpc, caller >>
                        ELSE initRet' = initRet /\ life' = "failed"
                             /\ mpc' = "st_slirp" /\ caller' = "init"
    /\ UNCHANGED << txVars, lookup, tableVars, rxVars, udp_tunnel, badClose >>

\* The first call of the lifecycle.
EtherInit(name, fail) ==
    /\ life = "closed"
    /\ ether_init(name, fail)

\* ------------------------------------------------ ether_start_udp_thread
\* The caller passes the descriptor of a socket it opened.
ether_start_udp_thread(fail) ==
    /\ mpc = "idle"
    /\ AllocFd(fdOpen) # -1
    /\ LET sock == AllocFd(fdOpen)
           s == start_thread(fail, net_if_type)
       IN  /\ fdOpen' = fdOpen \cup {sock}
           /\ fd' = sock
           /\ udp_tunnel' = TRUE
           /\ int_ack' = s.int_ack
           /\ thread_active' = s.thread_active
           /\ ether_thread' = s.ether_thread
           /\ rthreads' = s.rthreads
           /\ slirp_thread_active' = s.slirp_thread_active
           /\ slirp_thread' = s.slirp_thread
           /\ sthreads' = s.sthreads
    /\ life' = "udp"
    /\ UNCHANGED << txVars, lookup, tableVars, rxVars, slirp_output_fd, slirp_input_fds,
                    net_if_type, initRet, initFds, badClose, redirs, mpc, caller >>

\* The tunnel started in place of ether_init.
EtherStartUdp(fail) ==
    /\ life = "closed"
    /\ ether_start_udp_thread(fail)

\* --------------------------------------------------------- stop_thread
EnterStop(who) ==
    /\ mpc' = "st_slirp"
    /\ caller' = who

\* if (slirp_thread_active) pthread_cancel(slirp_thread)
StopSlirp ==
    /\ mpc = "st_slirp"
    /\ IF slirp_thread_active
       THEN /\ sthreads' = [sthreads EXCEPT ![slirp_thread].cancel = TRUE]
            /\ mpc' = "st_join_slirp"
       ELSE /\ sthreads' = sthreads
            /\ mpc' = "st_ether"
    /\ UNCHANGED << txVars, lookup, tableVars, devVars, rxVars, int_ack, thread_active,
                    slirp_thread_active, ether_thread, slirp_thread, rthreads,
                    caller, life >>

\* pthread_join(slirp_thread) returns; slirp_thread_active = false
JoinSlirp ==
    /\ mpc = "st_join_slirp"
    /\ Terminated(sthreads[slirp_thread])
    /\ sthreads' = [sthreads EXCEPT ![slirp_thread] = [pc |-> "free", cancel |-> FALSE]]
    /\ slirp_thread_active' = FALSE
    /\ mpc' = "st_ether"
    /\ UNCHANGED << txVars, lookup, tableVars, devVars, rxVars, int_ack, thread_active,
                    ether_thread, slirp_thread, rthreads, caller, life >>

\* stop_thread going on without the cancel and the join of the reception thread.
StopEther_NoJoin ==
    /\ mpc = "st_ether"
    /\ mpc' = "st_ret"
    /\ UNCHANGED << txVars, lookup, tableVars, devVars, rxVars, threadVars, int_ack, caller, life >>

\* if (thread_active) pthread_cancel(ether_thread)
StopEther ==
    /\ mpc = "st_ether"
    /\ IF thread_active
       THEN /\ rthreads' = [rthreads EXCEPT ![ether_thread].cancel = TRUE]
            /\ mpc' = "st_join_ether"
       ELSE /\ rthreads' = rthreads
            /\ mpc' = "st_ret"
    /\ UNCHANGED << txVars, lookup, tableVars, devVars, rxVars, int_ack, thread_active,
                    slirp_thread_active, ether_thread, slirp_thread, sthreads,
                    caller, life >>

\* pthread_join(ether_thread) returns; dispatch_release(int_ack);
\* thread_active = false
JoinEther ==
    /\ mpc = "st_join_ether"
    /\ Terminated(rthreads[ether_thread])
    /\ rthreads' = [rthreads EXCEPT ![ether_thread] = [pc |-> "free", cancel |-> FALSE]]
    /\ int_ack' = [st |-> "released", cnt |-> 0]
    /\ thread_active' = FALSE
    /\ mpc' = "st_ret"
    /\ UNCHANGED << txVars, lookup, tableVars, devVars, rxVars, slirp_thread_active, ether_thread,
                    slirp_thread, sthreads, caller, life >>

\* ------------------------------------------------------------- close()
\* close(n) for each n of the sequence, in order: the descriptors left open and
\* whether some close hit a number that was not open.
RECURSIVE CloseAll(_, _, _)
CloseAll(ns, open, bad) ==
    IF ns = << >> THEN [open |-> open, bad |-> bad]
    ELSE CloseAll(Tail(ns), open \ {Head(ns)}, bad \/ Head(ns) \notin open)

\* open_error: after stop_thread, close and forget what is held.
OpenErrorCloses ==
    (IF fd > 0 THEN << fd >> ELSE << >>)
    \o (IF slirp_input_fds[1] >= 0 THEN << slirp_input_fds[1] >> ELSE << >>)
    \o (IF slirp_input_fds[2] >= 0 THEN << slirp_input_fds[2] >> ELSE << >>)
    \o (IF slirp_output_fd >= 0 THEN << slirp_output_fd >> ELSE << >>)

InitUnwind ==
    /\ mpc = "st_ret"
    /\ caller = "init"
    /\ LET c == CloseAll(OpenErrorCloses, fdOpen, badClose)
       IN  /\ fdOpen' = c.open
           /\ badClose' = c.bad
    /\ fd' = IF fd > 0 THEN -1 ELSE fd
    /\ slirp_input_fds' = << -1, -1 >>
    /\ slirp_output_fd' = -1
    /\ initRet' = "false"
    /\ mpc' = "idle"
    /\ caller' = "none"
    /\ UNCHANGED << txVars, lookup, tableVars, rxVars, threadVars, int_ack, net_if_type,
                    udp_tunnel, initFds, redirs, life >>

\* ---------------------------------------------------------- ether_exit
ether_exit ==
    /\ mpc = "idle"
    /\ EnterStop("exit")
    /\ UNCHANGED << txVars, lookup, tableVars, devVars, rxVars, threadVars, int_ack, life >>

\* ether_exit after ether_init, once or again.
EtherExit ==
    /\ life \in {"open", "failed", "exited"}
    /\ ether_exit

ExitCloses ==
    (IF slirp_input_fds[1] >= 0 THEN << slirp_input_fds[1] >> ELSE << >>)
    \o (IF slirp_input_fds[2] >= 0 THEN << slirp_input_fds[2] >> ELSE << >>)
    \o (IF slirp_output_fd > 0 THEN << slirp_output_fd >> ELSE << >>)

ExitClose ==
    /\ mpc = "st_ret"
    /\ caller = "exit"
    /\ LET c == CloseAll(ExitCloses, fdOpen, badClose)
       IN  /\ fdOpen' = c.open
           /\ badClose' = c.bad
    /\ life' = "exited"
    /\ mpc' = "idle"
    /\ caller' = "none"
    /\ UNCHANGED << txVars, lookup, tableVars, rxVars, threadVars, int_ack, fd, slirp_output_fd,
                    slirp_input_fds, net_if_type, udp_tunnel, initRet, initFds,
                    redirs >>

\* ----------------------------------------------- ether_stop_udp_thread
ether_stop_udp_thread ==
    /\ mpc = "idle"
    /\ EnterStop("stop_udp")
    /\ UNCHANGED << txVars, lookup, tableVars, devVars, rxVars, threadVars, int_ack, life >>

\* The tunnel stopped after it was started.
EtherStopUdp ==
    /\ life = "udp"
    /\ ether_stop_udp_thread

StopUdpReturn ==
    /\ mpc = "st_ret"
    /\ caller = "stop_udp"
    /\ fd' = -1
    /\ life' = "stopped"
    /\ mpc' = "idle"
    /\ caller' = "none"
    /\ UNCHANGED << txVars, lookup, tableVars, rxVars, threadVars, int_ack, slirp_output_fd,
                    slirp_input_fds, net_if_type, udp_tunnel, fdOpen, initRet,
                    initFds, badClose, redirs >>

\* ------------------------------- the table shared between two threads
\* The guest driver's requests arrive on a thread other than the one that runs
\* the interrupt routine, at any time.
DriverConcurrent == TRUE

DriverAttach(t, h) ==
    /\ DriverConcurrent
    /\ LET r == ether_attach_ph(net_protocols, t, h)
       IN  /\ net_protocols' = r.tab
           /\ lastCall' = [op |-> "attach", ret |-> r.ret]
    /\ UNCHANGED << devVars, threadVars, rxVars, mainVars, int_ack, txVars, lookup >>

DriverDetach(t) ==
    /\ DriverConcurrent
    /\ LET r == ether_detach_ph(net_protocols, t)
       IN  /\ net_protocols' = r.tab
           /\ lastCall' = [op |-> "detach", ret |-> r.ret]
    /\ UNCHANGED << devVars, threadVars, rxVars, mainVars, int_ack, txVars, lookup >>

\* One pass of ether_do_interrupt up to the find() of ether_dispatch_packet:
\* when the key is found the routine stands before
\* `handler = net_protocols[search_type]`.
DispatchFind ==
    /\ gpc = "read"
    /\ LET r == BackendRead
           search_type == SearchType(ReadMacInt16(r.frame))
       IN  /\ backend' = r.rest
           /\ lastRead' = r.len
           /\ IF r.len < MinFrame
              THEN /\ gpc' = "ack"
                   /\ UNCHANGED << disp, nDisp, lookup >>
              ELSE /\ nDisp' = Bump(nDisp)
                   /\ IF udp_tunnel
                      THEN /\ disp' = [NoDisp EXCEPT !.kind = "udp"]
                           /\ gpc' = "read"
                           /\ lookup' = lookup
                      ELSE IF ~MapHas(net_protocols, search_type)
                           THEN /\ disp' = [kind |-> "dispatch", key |-> search_type,
                                            handler |-> 0, called |-> FALSE]
                                /\ gpc' = "read"
                                /\ lookup' = lookup
                           ELSE /\ disp' = disp
                                /\ gpc' = "index"
                                /\ lookup' = search_type
    /\ UNCHANGED << tableVars, devVars, threadVars, mainVars, int_ack, intFlag,
                    pending, badSignal, txVars >>

\* uint32 handler = net_protocols[search_type]: operator[] returns the value
\* of the key and creates the node with value 0 when the key is not there;
\* then the test for handler 0 and the call.
DispatchIndex ==
    /\ gpc = "index"
    /\ LET there == MapHas(net_protocols, lookup)
           handler == IF there THEN MapGet(net_protocols, lookup) ELSE 0
       IN  /\ net_protocols' = IF there THEN net_protocols
                               ELSE MapAssign(net_protocols, lookup, 0)
           /\ disp' = [kind |-> "dispatch", key |-> lookup, handler |-> handler,
                       called |-> handler # 0]
    /\ lookup' = -1
    /\ gpc' = "read"
    /\ UNCHANGED << lastCall, devVars, threadVars, mainVars, int_ack, backend,
                    intFlag, pending, nDisp, lastRead, badSignal, txVars >>

\* ------------------------------------------------------- ether_do_write
\* The copy with no limit on the bytes taken from the guest's description.
ether_arg_to_buffer_NoCap(n) == n

\* ether_arg_to_buffer(arg, p) -> ether_wds_to_buffer: the number of bytes
\* copied into packet[] for a write data structure that describes n bytes.
ether_arg_to_buffer(n) == Min(n, PacketBuf)

\* ether_do_write with len bytes in packet[].  hostOk: the host accepts a
\* write on the descriptor in this call; a write on a number that is not an
\* open descriptor fails whatever the host (EBADF).  In slirp mode the length
\* and the packet go to slirp_input_fds[1] with two write() calls whose
\* results are not looked at.
ether_do_write(len, hostOk) ==
    IF net_if_type = NET_IF_SLIRP
    THEN LET ok == hostOk /\ slirp_input_fds[2] \in fdOpen
         IN  [wrote |-> ok,
              pipe |-> IF ok THEN Append(inpipe, [len |-> len, n |-> len])
                       ELSE inpipe,
              ret |-> noErr]
    ELSE LET ok == hostOk /\ fd \in fdOpen
         IN  [wrote |-> ok,
              pipe |-> inpipe,
              ret |-> IF ok THEN noErr ELSE excessCollsns]

\* The guest driver transmits a packet of n bytes (a write on a full pipe
\* blocks).
GuestWrite(n, hostOk) ==
    /\ gpc = "run"
    /\ Len(inpipe) < MaxQueue
    /\ LET r == ether_do_write(ether_arg_to_buffer(n), hostOk)
       IN  /\ inpipe' = r.pipe
           /\ lastTx' = [asked |-> n, wrote |-> r.wrote, ret |-> r.ret]
    /\ UNCHANGED << tableVars, devVars, threadVars, rxVars, mainVars, int_ack,
                    asserted, lookup >>

\* slirp_receive_func, the input half of one iteration: select() finds the
\* input pipe readable, read() of the length, assert(len <= sizeof(packet)),
\* read() of the packet, slirp_input().
SlirpInput(t) ==
    /\ sthreads[t].pc = "run"
    /\ slirp_input_fds[1] \in fdOpen
    /\ inpipe # << >>
    /\ asserted' = (asserted \/ ~(Head(inpipe).len <= PacketBuf))
    /\ inpipe' = Tail(inpipe)
    /\ UNCHANGED << tableVars, devVars, threadVars, rxVars, mainVars, int_ack,
                    lastTx, lookup >>

\* ------------------------------------------------------ specification
TableOps ==
    \/ \E t \in ProtoTypes, h \in Handlers : GuestAttach(t, h)
    \/ \E t \in ProtoTypes : GuestDetach(t)
    \/ GuestReset

Reception ==
    \/ \E f \in Frames : FrameArrives(f)
    \/ \E t \in Tids : RecvPollReady(t)
    \/ \E t \in Tids : RecvPollFail(t)
    \/ \E t \in Tids : RecvAcked(t)
    \/ GuestTakeInterrupt
    \/ GuestRead
    \/ GuestAck

Slirp ==
    \E t \in Tids, f \in LongFrames : SlirpOutput(t, f)

Startup ==
    \/ \E n \in Names, x \in FailPoints : EtherInit(n, x)
    \/ \E x \in {"none", "sem", "thread"} : EtherStartUdp(x)

\* The steps inside stop_thread, the return of its callers, and the threads
\* acting on a cancel.
StopSteps ==
    \/ StopSlirp
    \/ JoinSlirp
    \/ StopEther
    \/ JoinEther
    \/ InitUnwind
    \/ ExitClose
    \/ StopUdpReturn
    \/ \E t \in Tids : RecvCancelled(t)
    \/ \E t \in Tids : SlirpCancelled(t)

Shutdown ==
    \/ EtherExit
    \/ EtherStopUdp
    \/ StopSteps

Transmit ==
    \/ \E n \in TxSizes, ok \in BOOLEAN : GuestWrite(n, ok)
    \/ \E t \in Tids : SlirpInput(t)

\* The device from start to shutdown, with the protocol table left alone.
NextLife == Startup \/ Reception \/ Slirp \/ Shutdown
SpecLife == Init /\ [][NextLife]_vars

\* The device with the guest driver attaching and detaching, up to shutdown.
NextDispatch == TableOps \/ Startup \/ Reception \/ Slirp
SpecDispatch == Init /\ [][NextDispatch]_vars

\* The guest driver attaching and detaching on a device started in any mode.
NextTable == TableOps \/ Startup
SpecTable == Init /\ [][NextTable]_vars

\* The guest driver transmitting on a device from start to shutdown.
NextTx == Startup \/ Transmit \/ Shutdown
SpecTx == Init /\ [][NextTx]_vars

\* The interrupt routine at statement granularity, with the guest driver's
\* attach and detach on another thread.
NextShared ==
    \/ \E n \in {"slirp", "sheep_net"} : EtherInit(n, "none")
    \/ \E f \in LongFrames : FrameArrives(f)
    \/ \E t \in Tids : RecvPollReady(t)
    \/ \E t \in Tids : RecvAcked(t)
    \/ GuestTakeInterrupt
    \/ DispatchFind
    \/ DispatchIndex
    \/ GuestAck
    \/ \E t \in ProtoTypes, h \in Handlers : DriverAttach(t, h)
    \/ \E t \in ProtoTypes : DriverDetach(t)
SpecShared == Init /\ [][NextShared]_vars

\* The four entry points called in any order, each call after the return of
\* the one before.
AnyCall ==
    \/ \E n \in {"slirp", "sheep_net"} : ether_init(n, "none")
    \/ ether_start_udp_thread("none")
    \/ ether_exit
    \/ ether_stop_udp_thread

NextAnyOrder == AnyCall \/ StopSteps
SpecAnyOrder == Init /\ [][NextAnyOrder]_vars

\* Scheduling: the caller inside stop_thread and the threads keep running, and
\* an interrupt routine that was entered runs to its end; the guest is under no
\* obligation to take an interrupt that was raised.
FairLife ==
    /\ SpecLife
    /\ WF_vars(GuestRead)
    /\ WF_vars(GuestAck)
    /\ WF_vars(StopSlirp)
    /\ WF_vars(JoinSlirp)
    /\ WF_vars(StopEther)
    /\ WF_vars(JoinEther)
    /\ WF_vars(InitUnwind \/ ExitClose \/ StopUdpReturn)
    /\ \A t \in Tids : WF_vars(RecvCancelled(t))
    /\ \A t \in Tids : WF_vars(RecvAcked(t))
    /\ \A t \in Tids : WF_vars(SlirpCancelled(t))

\* The device started and never shut down, with a guest that takes every
\* interrupt raised and runs its interrupt routine to the acknowledgment, and
\* reception threads that keep running.
NextRx == Startup \/ Reception \/ Slirp
FairRx ==
    /\ Init /\ [][NextRx]_vars
    /\ WF_vars(GuestTakeInterrupt)
    /\ WF_vars(GuestRead)
    /\ WF_vars(GuestAck)
    /\ \A t \in Tids : WF_vars(RecvPollReady(t)) /\ WF_vars(RecvAcked(t))

\* ================================================================ claims

\* C1: at most one Ethernet interrupt is outstanding: between an interrupt
\* raised by receive_func and the signal of int_ack by EtherInterrupt no second
\* interrupt is raised, whatever frames arrive and however late the signal is.
C1_OneOutstanding == pending <= 1

\* C1 witness: an interrupt is outstanding, the thread is in its wait, and two
\* more frames have become readable meanwhile.
C1_Witness ==
    /\ pending = 1
    /\ Len(backend) >= 2
    /\ \E t \in Tids : rthreads[t].pc = "wait"

\* C2: attach on a bound type returns lapProtErr and leaves the table as it
\* was (the type stays bound to the first handler); attach on a free type
\* returns noErr and binds exactly that type to the given handler; after
\* detach, or reset, the type is free again; no type ever has two handlers.
C2_AttachOnceUntilDetach ==
    /\ [](\A p \in net_protocols, q \in net_protocols : p[1] = q[1] => p = q)
    /\ [][/\ \A t \in ProtoTypes, h \in Handlers :
                GuestAttach(t, h) =>
                    IF t \in MapKeys(net_protocols)
                    THEN /\ lastCall'.ret = lapProtErr
                         /\ net_protocols' = net_protocols
                    ELSE /\ lastCall'.ret = noErr
                         /\ net_protocols' = net_protocols \cup { <<t, h>> }
          /\ \A t \in ProtoTypes :
                GuestDetach(t) => t \notin MapKeys(net_protocols')
          /\ GuestReset => net_protocols' = {}]_vars

\* C2 witness: an attach has just been refused while both handlers differ:
\* the type 0 is bound to handler 1 and literal type 1500 to handler 0.
C2_Witness ==
    /\ lastCall = [op |-> "attach", ret |-> lapProtErr]
    /\ <<0, 1>> \in net_protocols
    /\ <<1500, 0>> \in net_protocols

\* C3: detach returns lapProtErr exactly when the type has no entry, and then
\* the table is unchanged; otherwise it removes the entry of that type and no
\* other.
C3_DetachExact ==
    [][\A t \in ProtoTypes :
          GuestDetach(t) =>
              /\ (lastCall'.ret = lapProtErr) <=> (t \notin MapKeys(net_protocols))
              /\ t \notin MapKeys(net_protocols) => net_protocols' = net_protocols
              /\ t \in MapKeys(net_protocols) =>
                    net_protocols' = { p \in net_protocols : p[1] # t }]_vars

\* C3 witness: a detach has just been refused on a table that holds entries.
C3_Witness ==
    /\ lastCall = [op |-> "detach", ret |-> lapProtErr]
    /\ net_protocols # {}

\* C4: the key looked up for a received frame is 0 when the 16-bit field at
\* offset 12 is <= 1500 and the field itself otherwise (1500 -> 0,
\* 1501 -> 1501).
C4_DispatchKey ==
    [][(GuestRead /\ ~udp_tunnel /\ BackendRead.len >= 14) =>
          LET f == BackendRead.frame
              field == 256 * f.hi + f.lo
          IN  /\ disp'.kind = "dispatch"
              /\ field <= 1500 => disp'.key = 0
              /\ field > 1500 => disp'.key = field
              /\ field = 1500 => disp'.key # 1500
              /\ field = 1501 => disp'.key = 1501]_vars

\* C4 witness: a frame with field 1500 went to the catch-all handler while the
\* literal type 1500 is bound to another handler.
C4_Witness ==
    /\ gpc = "read"
    /\ nDisp >= 1
    /\ disp.kind = "dispatch"
    /\ disp.key = 0
    /\ disp.called
    /\ MapHas(net_protocols, 1500)
    /\ MapGet(net_protocols, 1500) # disp.handler

\* C5 as stated: the reception thread raises no interrupt on the readiness of
\* a frame shorter than 14 bytes.
C5_Original ==
    [][\A t \in Tids :
          RecvPollReady(t) => ~(backend # << >> /\ Head(backend).len < 14)]_vars

\* C5 amended: a frame shorter than 14 bytes is read by the interrupt routine,
\* is handed to no handler and to no tunnel ingestion, and ends the routine's
\* read loop.
C5_ShortFrameDropped ==
    [][(GuestRead /\ BackendRead.len >= 0 /\ BackendRead.len < 14) =>
          /\ disp' = disp
          /\ nDisp' = nDisp
          /\ gpc' = "ack"
          /\ backend' = Tail(backend)]_vars

\* C5 witness: the interrupt raised for a short frame is being serviced, the
\* read returned its 10 bytes and nothing was handed on.
C5_Witness ==
    /\ gpc = "ack"
    /\ lastRead \in 0..13
    /\ nDisp = 0
    /\ pending = 1

KeyUnbound(f) ==
    LET k == SearchType(ReadMacInt16(f))
    IN  ~MapHas(net_protocols, k) \/ MapGet(net_protocols, k) = 0

\* C6 as stated: no interrupt is raised on the readiness of a frame whose
\* dispatch key is absent from the table or bound to handler 0.
C6_Original ==
    [][\A t \in Tids :
          RecvPollReady(t) =>
              ~(/\ ~udp_tunnel
                /\ backend # << >>
                /\ Head(backend).len >= 14
                /\ KeyUnbound(Head(backend)))]_vars

\* C6 amended: outside the UDP tunnel, a frame whose key is absent or bound to
\* handler 0 is read by the interrupt routine and dropped: no guest handler is
\* called for it and the read loop goes on.
C6_NoHandlerCalled ==
    [][(GuestRead /\ ~udp_tunnel /\ BackendRead.len >= 14
            /\ KeyUnbound(BackendRead.frame)) =>
          /\ disp'.kind = "dispatch"
          /\ ~disp'.called
          /\ gpc' = "read"]_vars

\* C6 witness: inside an interrupt a frame was looked up, its key is bound to
\* handler 0, and no handler was called.
C6_Witness ==
    /\ gpc = "read"
    /\ nDisp >= 1
    /\ disp.kind = "dispatch"
    /\ ~disp.called
    /\ MapHas(net_protocols, disp.key)
    /\ pending = 1

\* C7 as stated: when the interrupt routine is about to acknowledge, it has
\* read and handed on exactly one frame.
C7_Original == gpc = "ack" => nDisp = 1

\* C7 amended: the interrupt routine acknowledges only after a read returned
\* fewer than 14 bytes: it hands on every frame of at least 14 bytes readable
\* until then, which may be none, one or several.
C7_DrainsUntilShortRead == gpc = "ack" => lastRead < 14

\* C7 witness: one interrupt handed on two frames, the last one to a handler.
C7_Witness ==
    /\ gpc = "ack"
    /\ nDisp >= 2
    /\ disp.called
    /\ pending = 1

\* C8: after one ether_init and one or more ether_exit, every descriptor the
\* initialization acquired has been closed exactly once.
C8_Original ==
    (life = "exited" /\ mpc = "idle") =>
        /\ ~badClose
        /\ initFds \cap fdOpen = {}

\* C9: when ether_init has returned false, no descriptor it acquired is open
\* and no thread it started is running.
C9_Original ==
    initRet = "false" =>
        /\ initFds \cap fdOpen = {}
        /\ \A t \in Tids : rthreads[t].pc = "free" /\ sthreads[t].pc = "free"

\* stop_thread is in pthread_join while the reception thread is inside
\* dispatch_semaphore_wait.
JoinWhileWaiting ==
    /\ mpc = "st_join_ether"
    /\ ether_thread \in Tids
    /\ rthreads[ether_thread].pc = "wait"

\* C10: stop_thread, called while the reception thread waits for an
\* acknowledgment the guest never sends (the guest never enters its interrupt
\* routine), eventually returns.
C10_Original ==
    []((JoinWhileWaiting /\ [](gpc = "run")) => <>(mpc = "idle"))

\* stop_thread has just been entered while every thread that runs is blocked:
\* the reception threads in poll() with nothing readable, the slirp threads in
\* their loop.
StopWhileBlocked ==
    /\ mpc = "st_slirp"
    /\ backend = << >>
    /\ \E t \in Tids : rthreads[t].pc = "poll" \/ sthreads[t].pc = "run"
    /\ \A t \in Tids : rthreads[t].pc \in {"free", "poll"}

\* C11: when stop_thread is called while the reception thread is blocked in
\* poll() and/or the slirp thread is in its select() loop, and no frame becomes
\* readable from then on, both threads terminate, are joined, and stop_thread
\* returns to its caller, which returns.
C11_StopsBlockedThreads ==
    []((StopWhileBlocked /\ [](backend = << >>)) =>
          <>(/\ mpc = "idle"
             /\ \A t \in Tids : rthreads[t].pc = "free" /\ sthreads[t].pc = "free"))

\* C11 witness: in slirp mode stop_thread has joined the slirp thread and sits in
\* pthread_join of the reception thread, which was cancelled inside poll()
\* with nothing readable and no interrupt outstanding.
C11_Witness ==
    /\ mpc = "st_join_ether"
    /\ net_if_type = NET_IF_SLIRP
    /\ rthreads[ether_thread].pc = "cancelled"
    /\ \A t \in Tids : sthreads[t].pc = "free"
    /\ backend = << >>
    /\ pending = 0

\* A step that closes a descriptor or sets a descriptor variable to -1.
DescriptorReleased ==
    \/ fdOpen' # fdOpen /\ fdOpen' \subseteq fdOpen
    \/ fd >= 0 /\ fd' < 0
    \/ slirp_output_fd >= 0 /\ slirp_output_fd' < 0
    \/ \E i \in 1..2 : slirp_input_fds[i] >= 0 /\ slirp_input_fds'[i] < 0

\* C12: on every shutdown path (ether_exit, open_error of ether_init,
\* ether_stop_udp_thread) a descriptor is closed or invalidated only when no
\* reception thread and no slirp thread exists any more (each was joined), and
\* a thread that exists always has its descriptors open: fd for the reception
\* thread, both pipes for the slirp thread.
C12_JoinBeforeClose ==
    /\ [][DescriptorReleased =>
             \A t \in Tids : rthreads[t].pc = "free" /\ sthreads[t].pc = "free"]_vars
    /\ [](\A t \in Tids :
             /\ rthreads[t].pc # "free" => fd \in fdOpen
             /\ sthreads[t].pc # "free" =>
                    /\ slirp_output_fd \in fdOpen
                    /\ slirp_input_fds[1] \in fdOpen)

\* C12 witness: a slirp device was started, both threads were joined, and
\* ether_exit has then closed the pipes.
C12_Witness ==
    /\ life = "exited"
    /\ initRet = "true"
    /\ net_if_type = NET_IF_SLIRP
    /\ int_ack.st = "released"
    /\ slirp_output_fd \notin fdOpen
    /\ slirp_input_fds[1] \notin fdOpen
    /\ \A t \in Tids : rthreads[t].pc = "free" /\ sthreads[t].pc = "free"

\* C13: after every ether_do_write, on the raw device, the UDP socket or the
\* slirp pipe: the result is excessCollsns when the write to the backend
\* failed, and noErr only when it succeeded.
C13_Original ==
    lastTx.asked > 0 =>
        /\ ~lastTx.wrote => lastTx.ret = excessCollsns
        /\ lastTx.ret = noErr => lastTx.wrote

\* C14: in slirp mode each read of the interrupt routine on the output pipe
\* returns exactly the oldest frame slirp_output wrote and not yet read, whole
\* and alone, and leaves the later frames in the pipe.
C14_Original ==
    [][(/\ GuestRead
        /\ net_if_type = NET_IF_SLIRP
        /\ ~udp_tunnel
        /\ fd \in fdOpen
        /\ backend # << >>) =>
          /\ lastRead' = Head(backend).len
          /\ backend' = Tail(backend)]_vars

\* C15: a dispatch lookup that runs while the guest driver attaches and
\* detaches leaves the table as it is: it adds no entry and alters none.
C15_Original == [][DispatchIndex => net_protocols' = net_protocols]_vars

\* C16: ether_reset leaves the table empty whatever it held, so that an attach
\* of any type then returns noErr; the semaphore, the interrupt flag, the
\* outstanding interrupt, the threads and the descriptors are as before.
C16_ResetEmptiesTable ==
    [][GuestReset =>
          /\ net_protocols' = {}
          /\ \A t \in ProtoTypes, h \in Handlers :
                ether_attach_ph(net_protocols', t, h).ret = noErr
          /\ UNCHANGED << int_ack, intFlag, pending, threadVars, fd,
                          slirp_output_fd, slirp_input_fds, fdOpen, backend >>]_vars

\* C16 witness: the table is empty after a reset issued while an interrupt was
\* outstanding and the reception thread waited, on a device that had a
\* handler bound (one was called).
C16_Witness ==
    /\ lastCall.op = "reset"
    /\ net_protocols = {}
    /\ disp.called
    /\ pending = 1
    /\ \E t \in Tids : rthreads[t].pc = "wait"

\* C17: whenever no call is in progress, at most one reception thread and at
\* most one slirp thread run, and a slirp thread runs only on the slirp
\* backend (net_if_type is NET_IF_SLIRP and fd is not the tunnel's socket).
C17_Original ==
    mpc = "idle" =>
        /\ Cardinality({ t \in Tids : rthreads[t].pc \in {"poll", "wait"} }) <= 1
        /\ Cardinality({ t \in Tids : sthreads[t].pc = "run" }) <= 1
        /\ (\E t \in Tids : sthreads[t].pc = "run") =>
                net_if_type = NET_IF_SLIRP /\ ~udp_tunnel

\* C18: in slirp mode the redirections are installed once, by the ether_init
\* that later creates the slirp thread: whenever a slirp thread exists they
\* have been installed exactly once, and no step installs them while a slirp
\* thread exists.
C18_RedirsBeforePump ==
    /\ [](/\ redirs <= 1
          /\ \A t \in Tids : sthreads[t].pc # "free" => redirs = 1
          /\ (initRet = "true" /\ net_if_type = NET_IF_SLIRP) => redirs = 1)
    /\ [][redirs' # redirs => \A t \in Tids : sthreads[t].pc = "free"]_vars

\* C18 witness: the slirp thread runs and has put a frame into the output
\* pipe, after an ether_init that installed the redirections.
C18_Witness ==
    /\ redirs = 1
    /\ initRet = "true"
    /\ net_if_type = NET_IF_SLIRP
    /\ backend # << >>
    /\ \E t \in Tids : sthreads[t].pc = "run"

C20_Original ==
    (life \in {"open", "udp"} /\ mpc = "idle" /\ thread_active) =>
        rthreads[ether_thread].pc \in {"poll", "wait"}

\* C21: EtherInterrupt never signals int_ack after stop_thread released it (nor
\* before start_thread created it): once the semaphore is released no
\* interrupt is raised, taken or in service any more, whatever the order of
\* raise, cancel, join and acknowledgment.
C21_NoSignalAfterRelease ==
    /\ ~badSignal
    /\ int_ack.st = "released" => (gpc = "run" /\ ~intFlag /\ pending = 0)

\* C21 witness: stop_thread has cancelled the reception thread and sits in
\* pthread_join while the thread waits for the acknowledgment of an interrupt
\* the guest is servicing and is about to signal.
C21_Witness ==
    /\ mpc = "st_join_ether"
    /\ rthreads[ether_thread].pc = "wait"
    /\ rthreads[ether_thread].cancel
    /\ gpc = "ack"
    /\ pending = 1
    /\ int_ack.st = "live"

\* C22: on a device that was started and is not shut down, with a guest that
\* acknowledges every interrupt, whenever frames are readable on the backend
\* ether_do_interrupt eventually stands at its read() with them readable, and
\* that read takes the oldest; so every frame is read in its turn, also one
\* that arrived during an interrupt or behind a frame shorter than 14 bytes.
C22_Original ==
    []((life \in {"open", "udp"} /\ thread_active /\ backend # << >>) =>
          <>(gpc = "read" /\ fd \in fdOpen /\ backend # << >>))

====
